---- MODULE Spec2Model ----
(***************************************************************************)
(* Chaos experiments of manual-chaos-scripts: each experiment function is  *)
(* a sequential pipeline of external commands (az, kubectl, helm).  The    *)
(* model keeps the trace of issued commands, the position of the function, *)
(* its locals, and the part of the cloud environment the commands change.  *)
(***************************************************************************)
EXTENDS Integers, Sequences, FiniteSets, TLC

VARIABLES
    exp,              \* the experiment function being executed
    pc,               \* position inside the function ("done" after return)
    result,           \* "none" while running, then "True" or "False"
    log,              \* trace of commands handed to run_command / run_azure_cli
    now,              \* wall clock in seconds; advanced by time.sleep only
    duration_seconds, \* argument of block_network_access / network partition
    isolated_zone,    \* argument of aks_container_network_partition
    nsg_name,         \* local of block_network_access
    we_created_nsg,   \* local of block_network_access
    error_a,          \* local of block_network_access (status of first prefix query)
    held,             \* seconds slept so far inside time.sleep
    nsgAssoc,         \* environment: NSG associated with the source subnet
    nsgExists,        \* environment: NSGs that exist in the resource group
    ruleIn,           \* environment: NSGs holding the block-<src>-to-<dst>-rule
    assoc0,           \* environment at call time: NSG associated with the subnet
    pods_in_zones,    \* local of the partition experiment: parsed query output
    i,                \* loop index (pod line, install command, node pool)
    labelled,         \* environment: pod lines whose pod carries the zone label
    policy,           \* environment: the NetworkChaos objects of the cluster
    nodepools,        \* environment/local of aks_zone_down: the node pools
    machines,         \* environment: per pool, instances left in the target zone
    cluster,          \* environment: what the pod/zone listing prints
    pods,             \* environment: pods matching the label selector
    killed,           \* pods deleted by each run of aks_kill_pods
    run,              \* 1 for the first call of the function, 2 for a second
    ha_mode,          \* environment: highAvailability.mode of the server
    forced_failover,  \* argument of postgres_failover
    db_zone,          \* environment: zone of the primary database server
    other,            \* a second, overlapping run of the partition experiment
    step,             \* main: number of the experiment in hand, 0 outside main
    started,          \* main: the experiments started so far, in order
    outcomes          \* main: the value of success after each experiment

vars == <<exp, pc, result, log, now, duration_seconds, isolated_zone, nsg_name,
          we_created_nsg, error_a, held, nsgAssoc, nsgExists, ruleIn, assoc0,
          pods_in_zones, i, labelled, policy, nodepools, machines, cluster,
          pods, killed, run, ha_mode, forced_failover, db_zone, other,
          step, started, outcomes>>

bnaLocals == <<nsg_name, we_created_nsg, error_a>>
bnaEnv    == <<nsgAssoc, nsgExists, ruleIn>>
partState == <<pods_in_zones, labelled, policy>>
zoneState == <<machines>>
inputs    == <<exp, duration_seconds, isolated_zone, assoc0, nodepools,
               cluster, ha_mode, forced_failover>>
killState == <<pods, killed, run>>
rest      == <<pods, killed, run, db_zone, other>>
mainState == <<step, started, outcomes>>

(***************************** bounds **************************************)
MaxDuration  == 2   \* durations range over -1..MaxDuration
MaxPods      == 2   \* lines of the pod/zone query output
MaxPools     == 2   \* node pools of the cluster
MaxInstances == 2   \* instances of one pool in the target zone

RC == {0, 1}        \* exit status of an external command: 0 or non-zero

\* run_command: (stdout, returncode) of the shell command, ("", 1) when the
\* subprocess call raises; the statuses a call can come back with
run_command == RC

\* run_azure_cli is imported from tests.utils by block_network_access and
\* aks_zone_down; it is the control-plane gateway execute(command) ->
\* (output, exitCode): one attempt, no retry, no parsing
run_azure_cli == RC

Experiments == {"aks_kill_pods", "aks_zone_down", "block_network_access",
                "aks_container_network_partition", "postgres_failover"}

Durations == -1 .. MaxDuration

(************************* names used by the code **************************)
NoNsg    == ""
PreNsg   == "SubnetA-nsg"
ChaosNsg == "SubnetA-chaostest-nsg"

RetTrue  == "return True"
RetFalse == "return False"

OnExceptionPropagates == "raise"

\* except Exception as e: logger.error(...); return False
OnException == RetFalse

(***************************** command trace *******************************)
Entry(c, n, k, ms, rc) ==
    [cmd |-> c, nsg |-> n, idx |-> k, names |-> ms, rc |-> rc, t |-> now,
     json |-> TRUE]

\* a query whose output goes through json.loads: json tells whether it parses
JsonEntry(c, rc, parsed) == [Entry(c, NoNsg, 0, {}, rc) EXCEPT !.json = parsed]

Issue(c, rc) == log' = Append(log, Entry(c, NoNsg, 0, {}, rc))

Goto(n) ==
    IF n = RetTrue THEN pc' = "done" /\ result' = "True"
    ELSE IF n = RetFalse THEN pc' = "done" /\ result' = "False"
    ELSE pc' = n /\ UNCHANGED result

(************************ block_network_access *****************************)
\* Output of the "networkSecurityGroup.id" query: the resource id of the NSG
\* associated with the subnet as path segments, empty when there is none.
NsgId(name) ==
    IF name = NoNsg THEN <<>>
    ELSE <<"subscriptions", "resourceGroups", "networkSecurityGroups", name>>

\* nsg_id.strip().split('/')[-1] if nsg_id else ''
NsgNameOf(nsg_id) == IF nsg_id # <<>> THEN nsg_id[Len(nsg_id)] ELSE NoNsg

\* if return_code != 0 or not nsg_id.strip()
MustCreateNsg(rc, nsg_id) == rc # 0 \/ nsg_id = <<>>

AfterGetNsg(rc, nsg_id) ==
    IF MustCreateNsg(rc, nsg_id) THEN "create_nsg" ELSE "prefix_a"

AfterCreateNsg(rc) == IF rc # 0 THEN RetFalse ELSE "associate_nsg"

AfterAssociateNsg(rc) == IF rc # 0 THEN RetFalse ELSE "prefix_a"

AfterPrefixes(ea, eb) == IF ea # 0 \/ eb # 0 THEN RetFalse ELSE "create_rule"

AfterCreateRule(rc) == IF rc # 0 THEN RetFalse ELSE "sleep"

AfterDeleteRuleRetry(rc, created) ==
    IF rc # 0 THEN "delete_rule"
    ELSE IF created THEN "disassociate_nsg" ELSE RetTrue

AfterDeleteRule(rc, created) ==
    IF rc # 0 THEN RetFalse
    ELSE IF created THEN "disassociate_nsg" ELSE RetTrue

AfterDisassociateNsgUnchecked(rc) == "delete_nsg"

AfterDisassociateNsg(rc) == IF rc # 0 THEN RetFalse ELSE "delete_nsg"

AfterDeleteNsg(rc) == IF rc # 0 THEN RetFalse ELSE RetTrue

GetNsg ==
    /\ exp = "block_network_access" /\ pc = "get_nsg"
    /\ \E rc \in run_azure_cli :
         LET nsg_id == IF rc = 0 THEN NsgId(nsgAssoc) ELSE <<>> IN
         /\ Issue("nsg_show", rc)
         /\ nsg_name' = NsgNameOf(nsg_id)
         /\ we_created_nsg' = FALSE
         /\ Goto(AfterGetNsg(rc, nsg_id))
    /\ UNCHANGED <<now, held, error_a, i, bnaEnv, partState, zoneState, inputs, rest, mainState>>

CreateNsg ==
    /\ exp = "block_network_access" /\ pc = "create_nsg"
    /\ \E rc \in run_azure_cli :
         /\ log' = Append(log, Entry("nsg_create", ChaosNsg, 0, {}, rc))
         /\ nsg_name' = ChaosNsg
         /\ we_created_nsg' = (rc = 0)
         /\ nsgExists' = IF rc = 0 THEN nsgExists \cup {ChaosNsg} ELSE nsgExists
         /\ Goto(AfterCreateNsg(rc))
    /\ UNCHANGED <<now, held, error_a, i, nsgAssoc, ruleIn, partState, zoneState, inputs, rest, mainState>>

AssociateNsg ==
    /\ exp = "block_network_access" /\ pc = "associate_nsg"
    /\ \E rc \in run_azure_cli :
         /\ log' = Append(log, Entry("nsg_associate", nsg_name, 0, {}, rc))
         /\ nsgAssoc' = IF rc = 0 THEN nsg_name ELSE nsgAssoc
         /\ Goto(AfterAssociateNsg(rc))
    /\ UNCHANGED <<now, held, bnaLocals, i, nsgExists, ruleIn, partState, zoneState, inputs, rest, mainState>>

GetSourcePrefix ==
    /\ exp = "block_network_access" /\ pc = "prefix_a"
    /\ \E rc \in run_azure_cli :
         /\ Issue("prefix_source", rc)
         /\ error_a' = rc
         /\ pc' = "prefix_b"
    /\ UNCHANGED <<result, now, held, nsg_name, we_created_nsg, i, bnaEnv,
                   partState, zoneState, inputs, rest, mainState>>

GetDestPrefix ==
    /\ exp = "block_network_access" /\ pc = "prefix_b"
    /\ \E rc \in run_azure_cli :
         /\ Issue("prefix_dest", rc)
         /\ Goto(AfterPrefixes(error_a, rc))
    /\ UNCHANGED <<now, held, bnaLocals, i, bnaEnv, partState, zoneState, inputs, rest, mainState>>

CreateRule ==
    /\ exp = "block_network_access" /\ pc = "create_rule"
    /\ \E rc \in run_azure_cli :
         /\ log' = Append(log, Entry("rule_create", nsg_name, 0, {}, rc))
         /\ ruleIn' = IF rc = 0 THEN ruleIn \cup {nsg_name} ELSE ruleIn
         /\ held' = 0
         /\ Goto(AfterCreateRule(rc))
    /\ UNCHANGED <<now, bnaLocals, i, nsgAssoc, nsgExists, partState, zoneState, inputs, rest, mainState>>

DeleteRule ==
    /\ exp = "block_network_access" /\ pc = "delete_rule"
    /\ \E rc \in run_azure_cli :
         /\ log' = Append(log, Entry("rule_delete", nsg_name, 0, {}, rc))
         /\ ruleIn' = IF rc = 0 THEN ruleIn \ {nsg_name} ELSE ruleIn
         /\ Goto(AfterDeleteRule(rc, we_created_nsg))
    /\ UNCHANGED <<now, held, bnaLocals, i, nsgAssoc, nsgExists, partState, zoneState, inputs, rest, mainState>>

DisassociateNsg ==
    /\ exp = "block_network_access" /\ pc = "disassociate_nsg"
    /\ \E rc \in run_azure_cli :
         /\ log' = Append(log, Entry("nsg_disassociate", NoNsg, 0, {}, rc))
         /\ nsgAssoc' = IF rc = 0 THEN NoNsg ELSE nsgAssoc
         /\ Goto(AfterDisassociateNsg(rc))
    /\ UNCHANGED <<now, held, bnaLocals, i, nsgExists, ruleIn, partState, zoneState, inputs, rest, mainState>>

DeleteNsg ==
    /\ exp = "block_network_access" /\ pc = "delete_nsg"
    /\ \E rc \in run_azure_cli :
         /\ log' = Append(log, Entry("nsg_delete", nsg_name, 0, {}, rc))
         /\ nsgExists' = IF rc = 0 THEN nsgExists \ {nsg_name} ELSE nsgExists
         /\ ruleIn' = IF rc = 0 THEN ruleIn \ {nsg_name} ELSE ruleIn
         /\ Goto(AfterDeleteNsg(rc))
    /\ UNCHANGED <<now, held, bnaLocals, i, nsgAssoc, partState, zoneState, inputs, rest, mainState>>

(******************************* time.sleep ********************************)
\* time.sleep(d) raises ValueError for a negative d; the except clause of the
\* experiment turns it into "return False".
SleepRaises(d) == d < 0

SleepOverEarly(h, d) == h + 1 >= d

\* the sleep returns once d seconds have passed
SleepOver(h, d) == h >= d

AfterSleep(e) ==
    IF e = "block_network_access" THEN "delete_rule" ELSE "delete_policy"

SleepError ==
    /\ pc = "sleep" /\ SleepRaises(duration_seconds)
    /\ Goto(OnException)
    /\ UNCHANGED <<log, now, held, bnaLocals, i, bnaEnv, partState, zoneState, inputs, rest, mainState>>

\* the wall clock is shared: a second run that is asleep sleeps on as well
SleepOn(r) ==
    IF r.pc = "sleep" /\ ~SleepOver(r.held, r.duration_seconds)
    THEN [r EXCEPT !.held = @ + 1] ELSE r

SleepTick ==
    /\ pc = "sleep" /\ ~SleepRaises(duration_seconds)
    /\ ~SleepOver(held, duration_seconds)
    /\ held' = held + 1
    /\ now' = now + 1
    /\ other' = SleepOn(other)
    /\ UNCHANGED <<pc, result, log, bnaLocals, i, bnaEnv, partState, zoneState,
                   inputs, killState, db_zone, mainState>>

SleepReturn ==
    /\ pc = "sleep" /\ ~SleepRaises(duration_seconds)
    /\ SleepOver(held, duration_seconds)
    /\ Goto(AfterSleep(exp))
    /\ UNCHANGED <<log, now, held, bnaLocals, i, bnaEnv, partState, zoneState, inputs, rest, mainState>>

(********************* utils.py: preflight probes **************************)
get_aks_credentials_ignored(rc) == TRUE

\* get_aks_credentials: False iff the command returned a non-zero status
get_aks_credentials(rc) == rc = 0

\* kubectl_installed: return return_code == 0
kubectl_installed(rc) == rc = 0

\* helm_installed: return return_code == 0
helm_installed(rc) == rc = 0

AfterCredentialsRetry(rc) ==
    IF get_aks_credentials(rc) THEN "kubectl" ELSE "credentials"

AfterCredentials(rc) == IF get_aks_credentials(rc) THEN "kubectl" ELSE RetFalse

AfterKubectl(rc, e) ==
    IF ~kubectl_installed(rc) THEN RetFalse
    ELSE IF e = "aks_kill_pods" THEN "delete_pod" ELSE "helm"

AfterHelm(rc) == IF helm_installed(rc) THEN "cm_helm" ELSE RetFalse

GetAksCredentials ==
    /\ exp \in {"aks_kill_pods", "aks_container_network_partition"}
    /\ pc = "credentials"
    /\ \E rc \in run_command :
         /\ Issue("get_credentials", rc)
         /\ Goto(AfterCredentials(rc))
    /\ UNCHANGED <<now, held, bnaLocals, i, bnaEnv, partState, zoneState, inputs, rest, mainState>>

KubectlInstalled ==
    /\ exp \in {"aks_kill_pods", "aks_container_network_partition"}
    /\ pc = "kubectl"
    /\ \E rc \in run_command :
         /\ Issue("kubectl_version", rc)
         /\ Goto(AfterKubectl(rc, exp))
    /\ UNCHANGED <<now, held, bnaLocals, i, bnaEnv, partState, zoneState, inputs, rest, mainState>>

HelmInstalled ==
    /\ exp = "aks_container_network_partition" /\ pc = "helm"
    /\ \E rc \in run_command :
         /\ Issue("helm_version", rc)
         /\ Goto(AfterHelm(rc))
    /\ UNCHANGED <<now, held, bnaLocals, i, bnaEnv, partState, zoneState, inputs, rest, mainState>>

(****************************** aks_kill_pods ******************************)
\* the function is called once, and once more with the same arguments
Runs == {1, 2}

AfterDeletePodStrict(rc, output) ==
    IF rc # 0 \/ output = {} THEN RetFalse ELSE RetTrue

\* output, return_code = run_command(delete_pod_cmd): only the status counts
AfterDeletePod(rc, output) == IF rc # 0 THEN RetFalse ELSE RetTrue

\* "kubectl delete pod -l <selector>" deletes the matching pods and prints
\* them; with no matching pod it prints "No resources found" and returns 0
DeletePod ==
    /\ exp = "aks_kill_pods" /\ pc = "delete_pod"
    /\ \E rc \in run_command :
         LET output == IF rc = 0 THEN pods ELSE {} IN
         /\ log' = Append(log, Entry("pod_delete", NoNsg, 0, output, rc))
         /\ pods' = pods \ output
         /\ killed' = [killed EXCEPT ![run] = @ \cup output]
         /\ Goto(AfterDeletePod(rc, output))
    /\ UNCHANGED <<now, held, bnaLocals, i, bnaEnv, partState, zoneState,
                   inputs, run, db_zone, other, mainState>>

\* the caller runs aks_kill_pods once more with the same arguments
KillPodsAgain ==
    /\ exp = "aks_kill_pods" /\ pc = "done" /\ run = 1 /\ step = 0
    /\ run' = 2
    /\ pc' = "credentials"
    /\ result' = "none"
    /\ log' = <<>>
    /\ UNCHANGED <<now, held, bnaLocals, i, bnaEnv, partState, zoneState,
                   inputs, pods, killed, db_zone, other, mainState>>

(******************* aks_container_network_partition ***********************)
\* install_chaos_mesh_cmds
InstallCmds == <<"helm_repo_add", "namespace_create", "helm_install">>

\* chaos_mesh_installed: "helm version" once more, then "helm status"
AfterChaosMeshHelm(rc) == IF helm_installed(rc) THEN "cm_status" ELSE "install"

AfterChaosMeshStatus(rc) == IF rc = 0 THEN "pods_query" ELSE "install"

\* install_chaos_mesh stops at the first failing command; the experiment
\* ignores its result and goes on to the pod query.
InstallGoesOn(rc, k) == rc = 0 /\ k < Len(InstallCmds)

\* One line of the pod/zone query output: "<pod>\t<region>-<zone>" (wf), or
\* a line that does not split in two at the tab.
Malformed == [wf |-> FALSE, zone |-> 0]

PodLines == [wf : {TRUE}, zone : 1..3] \cup {Malformed}

PodOutputs == UNION {[1..n -> PodLines] : n \in 0..MaxPods}

\* pods_in_zones.strip().split("\n"): an empty output still gives one line
SplitLines(out) == IF out = <<>> THEN <<Malformed>> ELSE out

\* target_zones = ["1","2","3"]; target_zones.remove(str(isolated_zone))
AllZones == {1, 2, 3}

ZoneList == <<1, 2, 3>>

TargetZonesPairwise(z) == <<(z % 3) + 1>>

\* list.remove drops the first element equal to str(isolated_zone)
TargetZones(z) == SelectSeq(ZoneList, LAMBDA x : x # z)

Range(q) == {q[k] : k \in DOMAIN q}

\* the NetworkChaos object of network_partition_yaml
NetworkPartitionYaml(z) ==
    [name |-> "chaos-partition", action |-> "partition", mode |-> "all",
     source_zone |-> z, direction |-> "both", target_mode |-> "all",
     target_zones |-> TargetZones(z)]

RemoveRaises(z) == z \notin AllZones

AfterLabelIgnoringFailure(rc, k, n, z) ==
    IF k < n THEN "label"
    ELSE IF RemoveRaises(z) THEN RetFalse ELSE "apply"

\* the label loop: a failing label returns False; after the last line the
\* YAML is built (remove raises ValueError for a zone outside 1..3)
AfterLabel(rc, k, n, z) ==
    IF rc # 0 THEN RetFalse
    ELSE IF k < n THEN "label"
    ELSE IF RemoveRaises(z) THEN OnException ELSE "apply"

AfterApplyUnchecked(rc) == "sleep"

AfterApply(rc) == IF rc # 0 THEN RetFalse ELSE "sleep"

AfterDeletePolicy(rc) == IF rc # 0 THEN RetFalse ELSE RetTrue

ChaosMeshHelm ==
    /\ exp = "aks_container_network_partition" /\ pc = "cm_helm"
    /\ \E rc \in run_command :
         /\ Issue("helm_version", rc)
         /\ i' = 1
         /\ Goto(AfterChaosMeshHelm(rc))
    /\ UNCHANGED <<now, held, bnaLocals, bnaEnv, partState, zoneState, inputs, rest, mainState>>

ChaosMeshStatus ==
    /\ exp = "aks_container_network_partition" /\ pc = "cm_status"
    /\ \E rc \in run_command :
         /\ Issue("helm_status", rc)
         /\ i' = 1
         /\ Goto(AfterChaosMeshStatus(rc))
    /\ UNCHANGED <<now, held, bnaLocals, bnaEnv, partState, zoneState, inputs, rest, mainState>>

InstallChaosMesh ==
    /\ exp = "aks_container_network_partition" /\ pc = "install"
    /\ \E rc \in run_command :
         /\ Issue(InstallCmds[i], rc)
         /\ IF InstallGoesOn(rc, i)
              THEN i' = i + 1 /\ UNCHANGED <<pc, result>>
              ELSE i' = 1 /\ Goto("pods_query")
    /\ UNCHANGED <<now, held, bnaLocals, bnaEnv, partState, zoneState, inputs, rest, mainState>>

PodsQuery ==
    /\ exp = "aks_container_network_partition" /\ pc = "pods_query"
    /\ \E rc \in run_command :
         /\ Issue("pods_query", rc)
         /\ pods_in_zones' = SplitLines(cluster)
         /\ i' = 1
         /\ pc' = "label"
    /\ UNCHANGED <<result, now, held, bnaLocals, bnaEnv, labelled, policy,
                   zoneState, inputs, rest, mainState>>

\* pod_name, pod_zone = pod.split("\t") raises ValueError on a malformed line
LabelUnpackError ==
    /\ exp = "aks_container_network_partition" /\ pc = "label"
    /\ ~pods_in_zones[i].wf
    /\ Goto(OnException)
    /\ UNCHANGED <<log, now, held, bnaLocals, i, bnaEnv, partState, zoneState, inputs, rest, mainState>>

LabelEffectUndoneOnFailure(rc, l, k) == IF rc = 0 THEN l \cup {k} ELSE {}

\* kubectl label pod ... --overwrite writes the zone label of the k-th pod;
\* nothing in the function ever removes a label
LabelEffect(rc, l, k) == IF rc = 0 THEN l \cup {k} ELSE l

LabelPod ==
    /\ exp = "aks_container_network_partition" /\ pc = "label"
    /\ pods_in_zones[i].wf
    /\ \E rc \in run_command :
         /\ log' = Append(log, Entry("pod_label", NoNsg, i, {}, rc))
         /\ labelled' = LabelEffect(rc, labelled, i)
         /\ i' = IF rc = 0 /\ i < Len(pods_in_zones) THEN i + 1 ELSE i
         /\ Goto(AfterLabel(rc, i, Len(pods_in_zones), isolated_zone))
    /\ UNCHANGED <<now, held, bnaLocals, bnaEnv, pods_in_zones, policy,
                   zoneState, inputs, rest, mainState>>

ApplyPolicy ==
    /\ exp = "aks_container_network_partition" /\ pc = "apply"
    /\ \E rc \in run_command :
         /\ log' = Append(log, Entry("policy_apply", NoNsg, isolated_zone,
                                     Range(TargetZones(isolated_zone)), rc))
         /\ policy' = IF rc = 0 THEN {NetworkPartitionYaml(isolated_zone)}
                                ELSE policy
         /\ held' = 0
         /\ Goto(AfterApply(rc))
    /\ UNCHANGED <<now, bnaLocals, i, bnaEnv, pods_in_zones, labelled,
                   zoneState, inputs, rest, mainState>>

\* "kubectl delete networkchaos chaos-partition" fails with NotFound when
\* no object of that name exists
DeleteStatus(p) == IF p = {} THEN run_command \ {0} ELSE run_command

DeletePolicy ==
    /\ exp = "aks_container_network_partition" /\ pc = "delete_policy"
    /\ \E rc \in DeleteStatus(policy) :
         /\ Issue("policy_delete", rc)
         /\ policy' = IF rc = 0 THEN {} ELSE policy
         /\ Goto(AfterDeletePolicy(rc))
    /\ UNCHANGED <<now, held, bnaLocals, i, bnaEnv, pods_in_zones, labelled,
                   zoneState, inputs, rest, mainState>>

(******************************* aks_zone_down *****************************)
\* A node pool as the control plane describes it: whether a VMSS matches its
\* name, and how many of its instances are in the target zone.
Pools == [vmss : BOOLEAN, inZone : 0..MaxInstances]

PoolLists == UNION {[1..n -> Pools] : n \in 0..MaxPools}

AfterShowCluster(rc) == IF rc # 0 THEN RetFalse ELSE "list_nodepools"

\* json.loads raises on unparsable output; for nodepool in nodepools
AfterListNodepools(rc, parsed, n) ==
    IF rc # 0 THEN RetFalse
    ELSE IF ~parsed THEN OnException
    ELSE IF n = 0 THEN RetTrue ELSE "vmss"

\* continue / end of the loop body: next pool, or return True after the last
NextPool(k, n) == IF k < n THEN "vmss" ELSE RetTrue

AfterListVmssFatal(rc, found, k, n) ==
    IF rc # 0 THEN RetFalse
    ELSE IF ~found THEN NextPool(k, n) ELSE "instances"

AfterListVmss(rc, found, k, n) ==
    IF rc # 0 \/ ~found THEN NextPool(k, n) ELSE "instances"

AfterListInstancesAlwaysDelete(rc, machine_names, k, n) ==
    IF rc # 0 THEN NextPool(k, n) ELSE "delete_machines"

AfterListInstances(rc, machine_names, k, n) ==
    IF rc # 0 \/ machine_names = {} THEN NextPool(k, n) ELSE "delete_machines"

AfterDeleteMachinesContinue(rc, k, n) == NextPool(k, n)

AfterDeleteMachines(rc, k, n) == IF rc # 0 THEN RetFalse ELSE NextPool(k, n)

Advance(next, k) == IF next = "vmss" THEN k + 1 ELSE k

ShowCluster ==
    /\ exp = "aks_zone_down" /\ pc = "show_cluster"
    /\ \E rc \in run_azure_cli :
         /\ Issue("aks_show", rc)
         /\ Goto(AfterShowCluster(rc))
    /\ UNCHANGED <<now, held, bnaLocals, i, bnaEnv, partState, zoneState, inputs, rest, mainState>>

ListNodepools ==
    /\ exp = "aks_zone_down" /\ pc = "list_nodepools"
    /\ \E rc \in run_azure_cli, parsed \in BOOLEAN :
         /\ log' = Append(log, JsonEntry("nodepool_list", rc, parsed))
         /\ i' = 1
         /\ Goto(AfterListNodepools(rc, parsed, Len(nodepools)))
    /\ UNCHANGED <<now, held, bnaLocals, bnaEnv, partState, zoneState, inputs, rest, mainState>>

ListVmss ==
    /\ exp = "aks_zone_down" /\ pc = "vmss"
    /\ \E rc \in run_azure_cli :
         LET next == AfterListVmss(rc, nodepools[i].vmss, i, Len(nodepools)) IN
         /\ log' = Append(log, Entry("vmss_list", NoNsg, i, {}, rc))
         /\ i' = Advance(next, i)
         /\ Goto(next)
    /\ UNCHANGED <<now, held, bnaLocals, bnaEnv, partState, zoneState, inputs, rest, mainState>>

ListInstances ==
    /\ exp = "aks_zone_down" /\ pc = "instances"
    /\ \E rc \in run_azure_cli :
         LET next == AfterListInstances(rc, machines[i], i, Len(nodepools)) IN
         /\ log' = Append(log, Entry("vmss_list_instances", NoNsg, i, {}, rc))
         /\ i' = Advance(next, i)
         /\ Goto(next)
    /\ UNCHANGED <<now, held, bnaLocals, bnaEnv, partState, zoneState, inputs, rest, mainState>>

DeleteMachines ==
    /\ exp = "aks_zone_down" /\ pc = "delete_machines"
    /\ \E rc \in run_azure_cli :
         LET next == AfterDeleteMachines(rc, i, Len(nodepools)) IN
         /\ log' = Append(log, Entry("delete_machines", NoNsg, i, machines[i], rc))
         /\ machines' = IF rc = 0 THEN [machines EXCEPT ![i] = {}] ELSE machines
         /\ i' = Advance(next, i)
         /\ Goto(next)
    /\ UNCHANGED <<now, held, bnaLocals, bnaEnv, partState, inputs, rest, mainState>>


(***************************** postgres_failover ***************************)
HaModes == {"ZoneRedundant", "SameZone", "Disabled"}

AfterShowServerAnyMode(rc, parsed, mode) ==
    IF rc # 0 THEN RetFalse
    ELSE IF ~parsed THEN OnException ELSE "pg_failover"

\* json.loads raises on unparsable output; ha_enabled = mode == "ZoneRedundant"
AfterShowServer(rc, parsed, mode) ==
    IF rc # 0 THEN RetFalse
    ELSE IF ~parsed THEN OnException
    ELSE IF mode # "ZoneRedundant" THEN RetFalse ELSE "pg_failover"

\* --failover Forced if forced_failover else --failover Planned
FailoverCmd(forced) == IF forced THEN "pg_restart_forced" ELSE "pg_restart_planned"

AfterFailoverRetry(rc) == IF rc # 0 THEN "pg_failover" ELSE "pg_show_again"

AfterFailover(rc) == IF rc # 0 THEN RetFalse ELSE "pg_show_again"

\* the status of the second query is not tested; json.loads of its output is
AfterShowServerAgain(rc, parsed) == IF ~parsed THEN OnException ELSE RetTrue

ShowServer ==
    /\ exp = "postgres_failover" /\ pc = "pg_show"
    /\ \E rc \in run_command, parsed \in BOOLEAN :
         /\ log' = Append(log, JsonEntry("pg_show", rc, parsed))
         /\ Goto(AfterShowServer(rc, parsed, ha_mode))
    /\ UNCHANGED <<now, held, bnaLocals, i, bnaEnv, partState, zoneState, inputs, rest, mainState>>

Failover ==
    /\ exp = "postgres_failover" /\ pc = "pg_failover"
    /\ \E rc \in run_command :
         /\ Issue(FailoverCmd(forced_failover), rc)
         /\ db_zone' = IF rc = 0 THEN 3 - db_zone ELSE db_zone
         /\ Goto(AfterFailover(rc))
    /\ UNCHANGED <<now, held, bnaLocals, i, bnaEnv, partState, zoneState, inputs,
                   killState, other, mainState>>

ShowServerAgain ==
    /\ exp = "postgres_failover" /\ pc = "pg_show_again"
    /\ \E rc \in run_command, parsed \in BOOLEAN :
         /\ log' = Append(log, JsonEntry("pg_show", rc, parsed))
         /\ Goto(AfterShowServerAgain(rc, parsed))
    /\ UNCHANGED <<now, held, bnaLocals, i, bnaEnv, partState, zoneState, inputs, rest, mainState>>

(***************** a second, overlapping partition run *********************)
\* The locals of the run that is not being stepped; "absent" when the
\* experiment runs alone.
NoRun ==
    [pc |-> "absent", result |-> "none", log |-> <<>>, held |-> 0, i |-> 1,
     pods_in_zones |-> <<>>, duration_seconds |-> 0, isolated_zone |-> 1]

(************************* the specification *******************************)
EntryPc(e) ==
    CASE e = "block_network_access" -> "get_nsg"
      [] e = "aks_zone_down" -> "show_cluster"
      [] e = "postgres_failover" -> "pg_show"
      [] OTHER -> "credentials"

Init ==
    /\ exp \in Experiments
    /\ pc = EntryPc(exp)
    /\ result = "none"
    /\ log = <<>>
    /\ now = 0
    /\ duration_seconds \in
         (IF exp \in {"block_network_access", "aks_container_network_partition"}
          THEN Durations ELSE {0})
    /\ isolated_zone \in
         (IF exp = "aks_container_network_partition" THEN 1..4 ELSE {1})
    /\ nsg_name = NoNsg
    /\ we_created_nsg = FALSE
    /\ error_a = 0
    /\ held = 0
    /\ nsgAssoc \in (IF exp = "block_network_access" THEN {NoNsg, PreNsg} ELSE {NoNsg})
    /\ nsgExists = {nsgAssoc} \ {NoNsg}
    /\ ruleIn = {}
    /\ assoc0 = nsgAssoc
    /\ pods_in_zones = <<>>
    /\ i = 1
    /\ labelled = {}
    /\ policy = {}
    /\ nodepools \in (IF exp = "aks_zone_down" THEN PoolLists ELSE {<<>>})
    /\ machines = [k \in 1..Len(nodepools) |-> 1..nodepools[k].inZone]
    /\ cluster \in
         (IF exp = "aks_container_network_partition" THEN PodOutputs ELSE {<<>>})
    /\ pods \in (IF exp = "aks_kill_pods" THEN {1..n : n \in 0..MaxPods} ELSE {{}})
    /\ killed = [r \in Runs |-> {}]
    /\ run = 1
    /\ ha_mode \in (IF exp = "postgres_failover" THEN HaModes ELSE {"Disabled"})
    /\ forced_failover \in (IF exp = "postgres_failover" THEN BOOLEAN ELSE {TRUE})
    /\ db_zone = 1
    /\ other = NoRun
    /\ step = 0
    /\ started = <<>>
    /\ outcomes = <<>>

Next ==
    \/ GetNsg \/ CreateNsg \/ AssociateNsg \/ GetSourcePrefix \/ GetDestPrefix
    \/ CreateRule \/ DeleteRule \/ DisassociateNsg \/ DeleteNsg
    \/ SleepError \/ SleepTick \/ SleepReturn
    \/ GetAksCredentials \/ KubectlInstalled \/ HelmInstalled
    \/ DeletePod \/ KillPodsAgain
    \/ ChaosMeshHelm \/ ChaosMeshStatus \/ InstallChaosMesh \/ PodsQuery
    \/ LabelUnpackError \/ LabelPod \/ ApplyPolicy \/ DeletePolicy
    \/ ShowCluster \/ ListNodepools \/ ListVmss \/ ListInstances \/ DeleteMachines
    \/ ShowServer \/ Failover \/ ShowServerAgain

Spec == Init /\ [][Next]_vars

\* the locals of the run being stepped
ThisRun ==
    [pc |-> pc, result |-> result, log |-> log, held |-> held, i |-> i,
     pods_in_zones |-> pods_in_zones, duration_seconds |-> duration_seconds,
     isolated_zone |-> isolated_zone]

\* the trace of a run that passed the preflight and found Chaos Mesh
Preflighted ==
    <<Entry("get_credentials", NoNsg, 0, {}, 0),
      Entry("kubectl_version", NoNsg, 0, {}, 0),
      Entry("helm_version", NoNsg, 0, {}, 0),
      Entry("helm_version", NoNsg, 0, {}, 0),
      Entry("helm_status", NoNsg, 0, {}, 0)>>

\* a run that is about to query the pods
NewRun(d, z) ==
    [NoRun EXCEPT !.pc = "pods_query", !.log = Preflighted,
                  !.duration_seconds = d, !.isolated_zone = z]

\* the scheduler turns to the other process: the two runs share the cluster
\* (labels, policy object) and the clock, nothing else
Switch ==
    /\ other.pc # "absent"
    /\ other' = ThisRun
    /\ pc' = other.pc
    /\ result' = other.result
    /\ log' = other.log
    /\ held' = other.held
    /\ i' = other.i
    /\ pods_in_zones' = other.pods_in_zones
    /\ duration_seconds' = other.duration_seconds
    /\ isolated_zone' = other.isolated_zone
    /\ UNCHANGED <<exp, now, bnaLocals, bnaEnv, labelled, policy, zoneState,
                   assoc0, nodepools, cluster, ha_mode, forced_failover,
                   killState, db_zone, mainState>>

\* the pod/zone query of a cluster without pods, or with one pod in zone 1
SmallClusters ==
    {out \in PodOutputs :
       \A k \in DOMAIN out : k = 1 /\ out[k] = [wf |-> TRUE, zone |-> 1]}

\* two processes call aks_container_network_partition on the same cluster;
\* the second one, for a hold of one second on zone 2, has already passed its
\* preflight
InitConc ==
    /\ exp = "aks_container_network_partition"
    /\ pc = EntryPc(exp)
    /\ result = "none"
    /\ log = <<>>
    /\ now = 0
    /\ duration_seconds \in Durations
    /\ isolated_zone = 1
    /\ nsg_name = NoNsg
    /\ we_created_nsg = FALSE
    /\ error_a = 0
    /\ held = 0
    /\ nsgAssoc = NoNsg
    /\ nsgExists = {}
    /\ ruleIn = {}
    /\ assoc0 = NoNsg
    /\ pods_in_zones = <<>>
    /\ i = 1
    /\ labelled = {}
    /\ policy = {}
    /\ nodepools = <<>>
    /\ machines = <<>>
    /\ cluster \in SmallClusters
    /\ pods = {}
    /\ killed = [r \in Runs |-> {}]
    /\ run = 1
    /\ ha_mode = "Disabled"
    /\ forced_failover = TRUE
    /\ db_zone = 1
    /\ other = NewRun(1, 2)
    /\ step = 0
    /\ started = <<>>
    /\ outcomes = <<>>

NextConc ==
    \/ GetAksCredentials \/ KubectlInstalled \/ HelmInstalled
    \/ ChaosMeshHelm \/ ChaosMeshStatus \/ InstallChaosMesh
    \/ PodsQuery \/ LabelUnpackError \/ LabelPod \/ ApplyPolicy
    \/ SleepError \/ SleepTick \/ SleepReturn
    \/ DeletePolicy
    \/ Switch

SpecConc == InitConc /\ [][NextConc]_vars


(********************************* main ************************************)
\* Experiment 1 .. Experiment 5 of main, in the order of the file
Order ==
    <<"aks_kill_pods", "aks_zone_down", "block_network_access",
      "aks_container_network_partition", "postgres_failover">>

Completed == Len(Order) + 1

\* block_duration = 30 for the network block, 60 for the partition
block_duration(e) ==
    IF e = "block_network_access" THEN 30
    ELSE IF e = "aks_container_network_partition" THEN 60 ELSE 0

MainStopsOnFailure(success, k) == IF success = "True" THEN k + 1 ELSE Completed

\* if success: logger.info(...) else: logger.error(...); then the next block
MainAfter(success, k) == k + 1

\* the call of experiment e: fresh locals, the arguments main passes
Call(e) ==
    /\ exp' = e
    /\ pc' = EntryPc(e)
    /\ result' = "none"
    /\ log' = <<>>
    /\ held' = 0
    /\ i' = 1
    /\ pods_in_zones' = <<>>
    /\ nsg_name' = NoNsg
    /\ we_created_nsg' = FALSE
    /\ error_a' = 0
    /\ duration_seconds' = block_duration(e)
    /\ started' = Append(started, e)

\* success = <experiment>(...) has returned: log the outcome, go on
MainStep ==
    /\ step \in DOMAIN Order /\ pc = "done"
    /\ outcomes' = Append(outcomes, result)
    /\ step' = MainAfter(result, step)
    /\ IF step' \in DOMAIN Order
       THEN Call(Order[step'])
       ELSE UNCHANGED <<exp, pc, result, log, held, i, pods_in_zones, bnaLocals,
                        duration_seconds, started>>
    /\ UNCHANGED <<now, isolated_zone, bnaEnv, labelled, policy, zoneState,
                   assoc0, nodepools, cluster, ha_mode, forced_failover, rest>>

\* what main is pointed at: a cluster with one node pool and MaxPods matching
\* pods, a source subnet with or without an NSG, a server of any HA mode
InitMain ==
    /\ step = 1
    /\ started = <<Order[1]>>
    /\ outcomes = <<>>
    /\ exp = Order[1]
    /\ pc = EntryPc(exp)
    /\ result = "none"
    /\ log = <<>>
    /\ now = 0
    /\ duration_seconds = block_duration(exp)
    /\ isolated_zone = 1
    /\ forced_failover = TRUE
    /\ nsg_name = NoNsg
    /\ we_created_nsg = FALSE
    /\ error_a = 0
    /\ held = 0
    /\ nsgAssoc \in {NoNsg, PreNsg}
    /\ nsgExists = {nsgAssoc} \ {NoNsg}
    /\ ruleIn = {}
    /\ assoc0 = nsgAssoc
    /\ pods_in_zones = <<>>
    /\ i = 1
    /\ labelled = {}
    /\ policy = {}
    /\ nodepools = <<[vmss |-> TRUE, inZone |-> MaxInstances]>>
    /\ machines = [k \in 1..Len(nodepools) |-> 1..nodepools[k].inZone]
    /\ cluster \in SmallClusters
    /\ pods = 1..MaxPods
    /\ killed = [r \in Runs |-> {}]
    /\ run = 1
    /\ ha_mode \in HaModes
    /\ db_zone = 1
    /\ other = NoRun

NextMain ==
    \/ GetNsg \/ CreateNsg \/ AssociateNsg \/ GetSourcePrefix \/ GetDestPrefix
    \/ CreateRule \/ DeleteRule \/ DisassociateNsg \/ DeleteNsg
    \/ SleepTick \/ SleepReturn
    \/ GetAksCredentials \/ KubectlInstalled \/ HelmInstalled
    \/ DeletePod
    \/ ChaosMeshHelm \/ ChaosMeshStatus \/ InstallChaosMesh
    \/ PodsQuery \/ LabelUnpackError \/ LabelPod \/ ApplyPolicy \/ DeletePolicy
    \/ ShowCluster \/ ListNodepools \/ ListVmss \/ ListInstances \/ DeleteMachines
    \/ ShowServer \/ Failover \/ ShowServerAgain
    \/ MainStep

SpecMain == InitMain /\ [][NextMain]_vars

\* A function called by itself or main, every external command returning
\* (subprocess.run comes back, time.sleep is over after its duration): the
\* step in hand is eventually taken
InitTerm == Init \/ InitMain

NextTerm == Next \/ MainStep

SpecTerm == InitTerm /\ [][NextTerm]_vars /\ WF_vars(NextTerm)

(*********************** reading the command trace *************************)
Has(c)       == \E k \in DOMAIN log : log[k].cmd = c
Succeeded(c) == \E k \in DOMAIN log : log[k].cmd = c /\ log[k].rc = 0
Failed(c)    == \E k \in DOMAIN log : log[k].cmd = c /\ log[k].rc # 0
Count(c)     == Cardinality({k \in DOMAIN log : log[k].cmd = c})

Returned == pc = "done"

DiscoveryCmds == {"nsg_show", "prefix_source", "prefix_dest", "pods_query",
                  "aks_show", "nodepool_list"}

MutatingCmds == {"nsg_create", "nsg_associate", "rule_create", "pod_label",
                 "policy_apply", "delete_machines", "pod_delete",
                 "helm_repo_add", "namespace_create", "helm_install",
                 "rule_delete", "nsg_disassociate", "nsg_delete", "policy_delete"}

ProbeCmds == {"get_credentials", "kubectl_version", "helm_version"}

RollbackCmds == {"rule_delete", "nsg_disassociate", "nsg_delete", "policy_delete"}

\* the fault became active: the deny rule or the NetworkChaos object was created
Activation(k) ==
    /\ k \in DOMAIN log
    /\ log[k].cmd \in {"rule_create", "policy_apply"}
    /\ log[k].rc = 0

(***************************************************************************)
(* C1: in block_network_access the NSG delete and the subnet               *)
(* disassociation are issued only for an NSG this invocation created, and  *)
(* an NSG that existed before the call is never deleted and never detached *)
(* from the source subnet, whatever external calls fail.                   *)
(***************************************************************************)
C1_NeverTouchForeignNsg ==
    exp = "block_network_access" =>
      /\ \A k \in DOMAIN log :
           log[k].cmd = "nsg_delete" =>
             \E j \in 1..(k-1) : /\ log[j].cmd = "nsg_create" /\ log[j].rc = 0
                                 /\ log[j].nsg = log[k].nsg
      /\ \A k \in DOMAIN log :
           log[k].cmd = "nsg_disassociate" =>
             \E j \in 1..(k-1) : log[j].cmd = "nsg_create" /\ log[j].rc = 0
      /\ assoc0 # NoNsg => (assoc0 \in nsgExists /\ nsgAssoc = assoc0)

(***************************************************************************)
(* C2: creation/deletion symmetry: when block_network_access returns True  *)
(* the subnet has the same NSG association as before the call, no NSG      *)
(* created by the run still exists, and the deny rule is absent.           *)
(***************************************************************************)
C2_SymmetryOnTrue ==
    (exp = "block_network_access" /\ Returned /\ result = "True") =>
      /\ nsgAssoc = assoc0
      /\ (Succeeded("nsg_create") => ChaosNsg \notin nsgExists)
      /\ ruleIn = {}

(***************************************************************************)
(* C3: on every return path of block_network_access an NSG the run created *)
(* has had its detach and its delete attempted, and the rollback of every  *)
(* sub-step that succeeded has been attempted.                             *)
(***************************************************************************)
C3_CleanupOnEveryReturn ==
    (exp = "block_network_access" /\ Returned) =>
      /\ Succeeded("nsg_create") =>
           (Has("nsg_disassociate") /\ Has("nsg_delete"))
      /\ Succeeded("rule_create") => Has("rule_delete")

(***************************************************************************)
(* C4: for every fault that became active (rule create or policy apply     *)
(* returned 0) exactly one matching rollback command has been issued when  *)
(* the experiment function returns, for every duration value.              *)
(***************************************************************************)
C4_ExactlyOneRollback ==
    Returned =>
      /\ Succeeded("rule_create") => Count("rule_delete") = 1
      /\ Succeeded("policy_apply") => Count("policy_delete") = 1

(***************************************************************************)
(* C5: after the fault became active no command at all, and so no rollback *)
(* command, is issued before duration_seconds have elapsed; a rollback     *)
(* command is only ever issued after an activation.                        *)
(***************************************************************************)
C5_HoldBeforeRollback ==
    /\ \A j \in DOMAIN log :
         Activation(j) =>
           \A k \in (j+1)..Len(log) : log[k].t - log[j].t >= duration_seconds
    /\ \A k \in DOMAIN log :
         log[k].cmd \in {"rule_delete", "policy_delete"} =>
           \E j \in 1..(k-1) : Activation(j)

C5_Witness ==
    /\ duration_seconds >= 2
    /\ \E k \in DOMAIN log : log[k].cmd \in {"rule_delete", "policy_delete"}
                             /\ log[k].t >= 2

(***************************************************************************)
(* C6: in the partition experiment the policy apply command is issued only *)
(* after a label command returned 0 for every discovered pod; when a label *)
(* command fails, no apply is issued and the function returns False.       *)
(***************************************************************************)
C6_LabelAllBeforeApply ==
    exp = "aks_container_network_partition" =>
      /\ \A a \in DOMAIN log :
           log[a].cmd = "policy_apply" =>
             \A n \in DOMAIN pods_in_zones :
               \E j \in 1..(a-1) : /\ log[j].cmd = "pod_label"
                                   /\ log[j].idx = n /\ log[j].rc = 0
      /\ Failed("pod_label") =>
           (~Has("policy_apply") /\ Returned /\ result = "False")

C6_Witness ==
    /\ Has("policy_apply")
    /\ Len(pods_in_zones) >= 2
    /\ Count("pod_label") = Len(pods_in_zones)

(***************************************************************************)
(* C7: block_network_access creates an NSG and sets we_created_nsg exactly *)
(* when no NSG was associated with the source subnet at the start; with an *)
(* NSG already associated it creates none, keeps the flag false and reuses *)
(* the existing NSG, also when the lookup returns a non-zero status.       *)
(***************************************************************************)
C7_OwnershipFlag ==
    exp = "block_network_access" =>
      /\ assoc0 # NoNsg =>
           /\ ~Has("nsg_create")
           /\ ~we_created_nsg
           /\ (Has("nsg_show") => nsg_name = assoc0)
      /\ we_created_nsg => assoc0 = NoNsg
      /\ (assoc0 = NoNsg /\ Succeeded("nsg_create")) => we_created_nsg

(***************************************************************************)
(* C8: a discovery query with a non-zero status makes the experiment       *)
(* return False, and no mutating command has been issued by the run.       *)
(***************************************************************************)
C8_DiscoveryFailureAborts ==
    (\E k \in DOMAIN log : log[k].cmd \in DiscoveryCmds /\ log[k].rc # 0) =>
      /\ \A j \in DOMAIN log :
           log[j].cmd \notin {"nsg_create", "nsg_associate", "rule_create",
                              "pod_label", "policy_apply", "delete_machines"}
      /\ Returned => result = "False"

(***************************************************************************)
(* C9: the preflight checks of an experiment function (credentials,        *)
(* kubectl, and helm for the partition) come first; nothing else is issued *)
(* unless all of them passed, and when one fails the function returns      *)
(* False without any mutating command.                                     *)
(***************************************************************************)
PreflightCount(e) ==
    CASE e = "aks_kill_pods" -> 2
      [] e = "aks_container_network_partition" -> 3
      [] OTHER -> 0

PreflightFailed ==
    \E k \in DOMAIN log : k <= PreflightCount(exp) /\ log[k].rc # 0

C10_NoRollbackRetry ==
    \A c \in RollbackCmds :
      Failed(c) =>
        /\ Count(c) = 1
        /\ log[Len(log)].cmd = c
        /\ Returned /\ result = "False"

C10_Witness ==
    /\ Failed("nsg_disassociate")
    /\ Succeeded("rule_delete")
    /\ Returned

(***************************************************************************)
(* C11: rollback order of block_network_access: the rule delete is the     *)
(* first rollback command; the disassociation is issued only after a rule  *)
(* delete returned 0, the NSG delete only after a disassociation returned  *)
(* 0, and never while the NSG is still associated with the subnet.         *)
(***************************************************************************)
C11_RollbackOrder ==
    exp = "block_network_access" =>
      /\ \A k \in DOMAIN log :
           log[k].cmd \in {"nsg_disassociate", "nsg_delete"} =>
             \E j \in 1..(k-1) : log[j].cmd = "rule_delete" /\ log[j].rc = 0
      /\ \A k \in DOMAIN log :
           log[k].cmd = "nsg_delete" =>
             /\ log[k-1].cmd = "nsg_disassociate" /\ log[k-1].rc = 0
             /\ nsgAssoc # log[k].nsg
      /\ \A k \in DOMAIN log :
           log[k].cmd = "nsg_disassociate" =>
             (log[k-1].cmd = "rule_delete" /\ we_created_nsg)
      /\ pc = "delete_nsg" => nsgAssoc # nsg_name

C11_Witness ==
    /\ exp = "block_network_access"
    /\ Succeeded("nsg_delete")
    /\ Returned /\ result = "True"

\* a step of the run failed: a command returned non-zero, the presence
\* probes of chaos_mesh_installed (whose status is the answer) left aside
StepFailed(k) ==
    /\ log[k].rc # 0
    /\ log[k].cmd # "helm_status"
    /\ ~(log[k].cmd = "helm_version"
         /\ \E j \in 1..(k-1) : log[j].cmd = "helm_version")

Drivers == {"block_network_access", "aks_container_network_partition"}

(***************************************************************************)
(* C12: the network-deny and partition drivers return True only if the     *)
(* fault was applied, the hold completed and every rollback command issued *)
(* returned 0, so that no fault of the run is active after a True return;  *)
(* every failure of any step leads to a False return.                      *)
(***************************************************************************)
C12_DriverStateMachine ==
    (exp \in Drivers /\ Returned) =>
      /\ result = "True" =>
           /\ \E k \in DOMAIN log : Activation(k)
           /\ held >= duration_seconds
           /\ \A k \in DOMAIN log :
                log[k].cmd \in RollbackCmds => log[k].rc = 0
           /\ ruleIn = {} /\ policy = {}
      /\ (\E k \in DOMAIN log : StepFailed(k)) => result = "False"

\* reading the trace of aks_zone_down, pool by pool
PoolCmd(c, p)    == {k \in DOMAIN log : log[k].cmd = c /\ log[k].idx = p}
PoolOk(c, p)     == \E k \in PoolCmd(c, p) : log[k].rc = 0
PoolFailed(c, p) == \E k \in PoolCmd(c, p) : log[k].rc # 0

QueriesSucceeded ==
    /\ Succeeded("aks_show")
    /\ \E k \in DOMAIN log :
         log[k].cmd = "nodepool_list" /\ log[k].rc = 0 /\ log[k].json

\* the instances of pool p in the target zone
InZone(p) == IF nodepools[p].vmss THEN 1..nodepools[p].inZone ELSE {}

SubQueryFailed(p) ==
    PoolFailed("vmss_list", p) \/ PoolFailed("vmss_list_instances", p)

(***************************************************************************)
(* C13: in aks_zone_down, when the cluster and node-pool queries succeed   *)
(* and no node pool has an instance in the target zone (a cluster without  *)
(* node pools included), no delete-machines command is issued and the      *)
(* function returns True.                                                  *)
(***************************************************************************)
C13_NoTargetsIsSuccess ==
    (exp = "aks_zone_down" /\ \A p \in DOMAIN nodepools : InZone(p) = {}) =>
      /\ ~Has("delete_machines")
      /\ (Returned /\ QueriesSucceeded) => result = "True"

C13_Witness ==
    /\ exp = "aks_zone_down" /\ Returned /\ QueriesSucceeded
    /\ Len(nodepools) >= 1
    /\ \A p \in DOMAIN nodepools : InZone(p) = {}
    /\ Succeeded("vmss_list_instances")
    /\ result = "True"

(***************************************************************************)
(* C14: in aks_zone_down a failing per-pool sub-query is not fatal by      *)
(* itself, but when the sub-queries failed for every node pool, so that no *)
(* instance was selected, the experiment returns False.                    *)
(***************************************************************************)
C14_AllPoolsSkippedFails ==
    (/\ exp = "aks_zone_down" /\ Returned
     /\ Len(nodepools) >= 1
     /\ \A p \in DOMAIN nodepools : SubQueryFailed(p)) => result = "False"

(***************************************************************************)
(* C15: in aks_zone_down every node pool whose sub-queries succeed and     *)
(* which has an instance in the target zone gets exactly one               *)
(* delete-machines command naming exactly its instances in that zone; a    *)
(* pool without such an instance or with a failed sub-query gets none and  *)
(* the remaining pools are still processed; when no delete failed the      *)
(* result is True.                                                         *)
(***************************************************************************)
C15_DeletePerMatchingPool ==
    exp = "aks_zone_down" =>
      /\ \A p \in DOMAIN nodepools :
           /\ Cardinality(PoolCmd("delete_machines", p)) <= 1
           /\ \A k \in PoolCmd("delete_machines", p) :
                /\ log[k].names = InZone(p) /\ InZone(p) # {}
                /\ PoolOk("vmss_list", p) /\ PoolOk("vmss_list_instances", p)
           /\ (SubQueryFailed(p) \/ InZone(p) = {}) =>
                PoolCmd("delete_machines", p) = {}
      /\ (Returned /\ QueriesSucceeded /\ ~Failed("delete_machines")) =>
           /\ \A p \in DOMAIN nodepools :
                /\ PoolCmd("vmss_list", p) # {}
                /\ (~SubQueryFailed(p) /\ InZone(p) # {}) =>
                     Cardinality(PoolCmd("delete_machines", p)) = 1
           /\ result = "True"

C15_Witness ==
    /\ exp = "aks_zone_down" /\ Returned /\ result = "True"
    /\ Len(nodepools) = 2
    /\ SubQueryFailed(1)
    /\ PoolOk("delete_machines", 2)

\* entries j and k of the trace are the same command line
SameCommand(j, k) ==
    /\ log[j].cmd = log[k].cmd
    /\ log[j].idx = log[k].idx
    /\ log[j].nsg = log[k].nsg

\* issued a second time by design: "helm version" by chaos_mesh_installed
\* after helm_installed, the server query of postgres_failover after the
\* failover
Reissued == {"helm_version", "pg_show"}

(***************************************************************************)
(* C16 (as stated): within one run every external command is attempted     *)
(* exactly once; the same command is never issued a second time, the       *)
(* "helm version" probe of the partition experiment included.              *)
(***************************************************************************)
C16_EveryCommandOnce ==
    \A j, k \in DOMAIN log : SameCommand(j, k) => j = k

(***************************************************************************)
(* C16 (amended): no retries: a command that returned non-zero is never    *)
(* issued again in the same run, and a command is issued at most once,     *)
(* except "helm version" in the partition experiment and the server query  *)
(* of postgres_failover, which are issued at most twice, the second time   *)
(* only after the first returned 0.                                        *)
(***************************************************************************)
C16_NoRetry ==
    \A j, k \in DOMAIN log :
      (j < k /\ SameCommand(j, k)) =>
        /\ log[j].rc = 0
        /\ log[j].cmd \in Reissued
        /\ exp \in {"aks_container_network_partition", "postgres_failover"}
        /\ \A m \in DOMAIN log : SameCommand(j, m) => m \in {j, k}

C16_Witness ==
    /\ exp = "aks_container_network_partition" /\ Returned
    /\ Count("helm_version") = 2
    /\ Failed("helm_install") /\ Failed("policy_apply")

\* an error has been raised inside the try block of the running function
SleepRaised ==
    /\ exp \in Drivers /\ pc # "sleep"
    /\ SleepRaises(duration_seconds)
    /\ \E k \in DOMAIN log : Activation(k)

UnpackRaised ==
    /\ exp = "aks_container_network_partition" /\ pc # "label"
    /\ Has("pods_query")
    /\ i \in DOMAIN pods_in_zones /\ ~pods_in_zones[i].wf

RemoveRaised ==
    /\ exp = "aks_container_network_partition" /\ pc # "label"
    /\ Has("pods_query")
    /\ RemoveRaises(isolated_zone)

Unparsable == \E k \in DOMAIN log : ~log[k].json

ReturnedFalse == Returned /\ result = "False"

\* commands whose non-zero status the functions do not treat as fatal
Tolerated(k) ==
    \/ ~StepFailed(k)
    \/ log[k].cmd \in {"nsg_show", "pods_query", "vmss_list",
                       "vmss_list_instances"}
    \/ \E c \in DOMAIN InstallCmds : log[k].cmd = InstallCmds[c]
    \/ log[k].cmd = "pg_show" /\ \E j \in 1..(k-1) : log[j].cmd = "pg_show"

\* both address-prefix queries are issued before either status is tested
PrefixCheckPending(k) == log[k].cmd = "prefix_source" /\ pc = "prefix_b"

C18_PartitionAgainstAllOthers ==
    exp = "aks_container_network_partition" =>
      /\ \A p \in policy :
           /\ p.name = "chaos-partition"
           /\ p.source_zone = isolated_zone /\ isolated_zone \in AllZones
           /\ Range(p.target_zones) = AllZones \ {isolated_zone}
           /\ Len(p.target_zones) = Cardinality(AllZones) - 1
           /\ p.direction = "both"
      /\ \A k \in DOMAIN log :
           log[k].cmd = "policy_apply" =>
             /\ log[k].idx = isolated_zone
             /\ log[k].names = AllZones \ {isolated_zone}

C18_Witness ==
    /\ exp = "aks_container_network_partition" /\ pc = "sleep"
    /\ isolated_zone = 2
    /\ policy = {NetworkPartitionYaml(2)}
    /\ Range(NetworkPartitionYaml(2).target_zones) = {1, 3}

(***************************************************************************)
(* C19: a second run of aks_kill_pods with the same namespace and label    *)
(* selector, after the first run deleted every matching pod and none was   *)
(* recreated, returns True and deletes nothing (kubectl reporting status 0 *)
(* when no pod matches).                                                   *)
(***************************************************************************)
C19_SecondRunIsNoOp ==
    (/\ exp = "aks_kill_pods" /\ run = 2 /\ Returned
     /\ pods \cup killed[2] = {}
     /\ \A k \in DOMAIN log : log[k].rc = 0) =>
      /\ result = "True"
      /\ killed[2] = {}
      /\ \A k \in DOMAIN log : log[k].cmd = "pod_delete" => log[k].names = {}

C19_Witness ==
    /\ exp = "aks_kill_pods" /\ run = 2 /\ Returned
    /\ killed[1] # {} /\ pods = {}
    /\ Succeeded("pod_delete")
    /\ result = "True"

\* reading the traces of two overlapping partition runs
AppliedAt(l)  == {l[k].t : k \in {m \in DOMAIN l : l[m].cmd = "policy_apply" /\ l[m].rc = 0}}
RemovedAt(l)  == {l[k].t : k \in {m \in DOMAIN l : l[m].cmd = "policy_delete" /\ l[m].rc = 0}}
LastFailed(l, c) == l # <<>> /\ l[Len(l)].cmd = c /\ l[Len(l)].rc # 0

InHold == pc = "sleep" /\ ~SleepRaises(duration_seconds)

(***************************************************************************)
(* C20: two overlapping runs of the partition experiment collide on the    *)
(* fixed policy name chaos-partition. A run inside its hold finds the      *)
(* policy gone only because the other run's rollback removed it, and a     *)
(* rollback issued when the policy no longer exists fails and makes the    *)
(* run return False; the witness is the interleaving in which both happen. *)
(***************************************************************************)
C20_Collision ==
    /\ [](\A p \in policy : p.name = "chaos-partition")
    /\ []((pc \in {"sleep", "delete_policy"} /\ policy = {}) =>
            /\ AppliedAt(log) # {}
            /\ \E a \in AppliedAt(log), t \in RemovedAt(other.log) : a <= t)
    /\ [][(pc = "delete_policy" /\ policy = {} /\ other' = other) =>
            (pc' = "done" /\ result' = "False"
             /\ LastFailed(log', "policy_delete"))]_vars

C20_Witness ==
    /\ Returned /\ result = "False"
    /\ LastFailed(log, "policy_delete")
    /\ policy = {}
    /\ \E a \in AppliedAt(log), t \in RemovedAt(other.log) :
         a < t /\ t < a + duration_seconds
    /\ other.pc = "done" /\ other.result = "True"

(***************************************************************************)
(* C21: main runs strictly sequentially: one experiment in progress at a   *)
(* time, each started only after the previous one returned, in the order   *)
(* pod kill, zone down, network block, network partition, postgres         *)
(* failover, each started whatever the earlier experiments returned.       *)
(***************************************************************************)
C21_MainSequential ==
    /\ [](step # 0 =>
            /\ started = SubSeq(Order, 1, Len(started))
            /\ Len(outcomes) = step - 1
            /\ Len(started) - Len(outcomes) \in {0, 1}
            /\ step \in DOMAIN Order =>
                 (Len(started) = step /\ exp = Order[step])
            /\ step = Completed => started = Order
            /\ \A k \in DOMAIN outcomes : outcomes[k] \in {"True", "False"})
    /\ [][started' # started =>
            (/\ pc = "done"
             /\ Len(outcomes') = Len(started)
             /\ pc' = EntryPc(exp') /\ log' = <<>>)]_vars

C21_Witness ==
    /\ step = Completed
    /\ started = Order
    /\ outcomes[1] = "False" /\ outcomes[2] = "True" /\ outcomes[4] = "False"

\* every command the partition experiment can issue
PartitionCmds ==
    {"get_credentials", "kubectl_version", "helm_version", "helm_status",
     "pods_query", "pod_label", "policy_apply", "policy_delete"}
    \cup Range(InstallCmds)

\* the pods whose zone label this run has written
LabelsWritten ==
    {log[k].idx : k \in {m \in DOMAIN log :
                           log[m].cmd = "pod_label" /\ log[m].rc = 0}}

(***************************************************************************)
(* C22: the partition experiment never issues a command that removes or    *)
(* restores a pod label: on every path (label failure at the k-th pod,     *)
(* failed policy apply, completed rollback) the zone labels written        *)
(* earlier in the run are still in place when the function returns.        *)
(***************************************************************************)
C22_LabelsLeftInPlace ==
    exp = "aks_container_network_partition" =>
      /\ \A k \in DOMAIN log : log[k].cmd \in PartitionCmds
      /\ LabelsWritten \subseteq labelled
      /\ Count("pod_label") <= Len(pods_in_zones)

C22_Witness ==
    /\ exp = "aks_container_network_partition" /\ Returned
    /\ Failed("pod_label")
    /\ labelled = {1} /\ LabelsWritten = {1}

\* every command aks_zone_down can issue
ZoneCmds ==
    {"aks_show", "nodepool_list", "vmss_list", "vmss_list_instances",
     "delete_machines"}

(***************************************************************************)
(* C23: aks_zone_down stops at the first failing delete-machines command:  *)
(* it returns False at once, no query or delete is issued for a later node *)
(* pool, and the deletions done for earlier pools are not undone.          *)
(***************************************************************************)
C23_StopAtFirstFailedDelete ==
    exp = "aks_zone_down" =>
      /\ \A k \in DOMAIN log :
           (log[k].cmd = "delete_machines" /\ log[k].rc # 0) =>
             /\ k = Len(log)
             /\ Returned /\ result = "False"
             /\ \A j \in DOMAIN log : log[j].idx <= log[k].idx
      /\ \A k \in DOMAIN log : log[k].cmd \in ZoneCmds
      /\ \A k \in DOMAIN log :
           (log[k].cmd = "delete_machines" /\ log[k].rc = 0) =>
             machines[log[k].idx] = {}

C23_Witness ==
    /\ exp = "aks_zone_down" /\ Returned /\ result = "False"
    /\ Len(nodepools) = 2 /\ InZone(2) # {}
    /\ PoolFailed("delete_machines", 1)
    /\ machines[1] # {}

RestartCmds == {FailoverCmd(TRUE), FailoverCmd(FALSE)}

(***************************************************************************)
(* C24: postgres_failover issues the restart/failover command only after   *)
(* the server query returned 0 and reported mode ZoneRedundant; when the   *)
(* query fails, cannot be parsed or HA is not enabled it returns False     *)
(* without a mutating command; at most one restart is issued per run,      *)
(* Forced when forced_failover is true, Planned otherwise.                 *)
(***************************************************************************)
C24_FailoverGuarded ==
    exp = "postgres_failover" =>
      /\ \A k \in DOMAIN log :
           log[k].cmd \in RestartCmds =>
             /\ k = 2
             /\ log[1].cmd = "pg_show" /\ log[1].rc = 0 /\ log[1].json
             /\ ha_mode = "ZoneRedundant"
             /\ log[k].cmd = FailoverCmd(forced_failover)
      /\ (log # <<>> /\ (log[1].rc # 0 \/ ~log[1].json
                         \/ ha_mode # "ZoneRedundant")) =>
           /\ Returned /\ result = "False"
           /\ Len(log) = 1 /\ db_zone = 1
      /\ \A k \in DOMAIN log : log[k].cmd \in RestartCmds \cup {"pg_show"}

C24_Witness ==
    /\ exp = "postgres_failover" /\ Returned
    /\ ~forced_failover
    /\ Succeeded("pg_restart_planned")
    /\ db_zone # 1

(***************************************************************************)
(* C25: postgres_failover returns True if and only if the failover command *)
(* was issued and returned 0: the outcome of the status query that follows *)
(* the failover does not change the result.                                *)
(***************************************************************************)
C25_ResultIsFailoverStatus ==
    (exp = "postgres_failover" /\ Returned) =>
      (result = "True" <=> \E k \in DOMAIN log :
                             log[k].cmd \in RestartCmds /\ log[k].rc = 0)

\* the pools and pod lines a run discovers
Discovered == Len(nodepools) + Len(SplitLines(cluster))

\* at most 11 commands outside the loops (the partition experiment with the
\* Chaos Mesh install), at most 3 per discovered pool or pod
CommandBound == 11 + 3 * Discovered

Terminated == pc = "done" /\ step \in {0, Completed}

(***************************************************************************)
(* C26: provided every external command returns and the discovered lists   *)
(* are finite, every experiment function eventually returns after a number *)
(* of commands bounded by a fixed count plus a constant per discovered     *)
(* pool or pod, and main eventually reaches "All experiments completed".   *)
(***************************************************************************)
C26_Termination ==
    /\ [](Len(log) <= CommandBound)
    /\ [](held <= duration_seconds \/ held = 0)
    /\ <>[]Terminated

C26_Witness ==
    /\ exp = "aks_container_network_partition" /\ Terminated
    /\ Len(SplitLines(cluster)) = MaxPods
    /\ Len(log) = 11 + MaxPods
    /\ result = "True"

====
